---- MODULE Spec2Model ----
(***************************************************************************)
(* Model of the two Tkinter grid drawers of the repository:                *)
(*   grid_maker.py    (8 x 8 grid, unlabelled samples, "gm_" definitions)  *)
(*   symbols_maker.py (5 x 5 grid, labelled samples,   "sm_" definitions)  *)
(* Both are single-threaded: every handler runs to completion, so every    *)
(* handler is one action.  The variable variant says which of the two      *)
(* programs the behaviour is a run of.                                     *)
(***************************************************************************)
EXTENDS Integers, Sequences, FiniteSets, TLC

VARIABLES
    variant,    \* which program runs: "grid_maker" or "symbols_maker"
    state,      \* self.state: the N x N array, a function (row, col) -> value
    shape_var,  \* self.shape_var (symbols_maker only; 0 and unused in grid_maker)
    samples,    \* self.samples: the list of stored vectors
    rects,      \* fill colour of the canvas rectangle of each cell
    last        \* what the most recent handler did: dialogs shown, file written

vars == <<variant, state, shape_var, samples, rects, last>>

-----------------------------------------------------------------------------
(* Program constants *)

CELL_SIZE == 50

GRID_SIZE_gm == 8

GRID_SIZE_sm == 5

(* Bound of the model: the longest Sample Store explored. *)
MaxSamples == 2

GRID_SIZE(v) == IF v = "grid_maker" THEN GRID_SIZE_gm ELSE GRID_SIZE_sm

None == <<>>

Cells(N) == (0 .. N - 1) \X (0 .. N - 1)

(* np.zeros((GRID_SIZE, GRID_SIZE)) *)
np_zeros(N) == [cell \in Cells(N) |-> 0]

(* ndarray.any() *)
np_any(st) == \E cell \in DOMAIN st : st[cell] # 0

(* Division that rounds towards zero, as int(a / b) does. *)
truncdiv(a, b) == IF a >= 0 THEN a \div b ELSE -((-a) \div b)

(* Python's // on integers rounds towards minus infinity. *)
floordiv(a, b) == a \div b

(* Flattening in column-major (Fortran) order. *)
np_flatten_colmajor(st, N) ==
    [i \in 1 .. N * N |-> st[<<(i - 1) % N, (i - 1) \div N>>]]

(* ndarray.flatten(): C order, index r * N + c (0-based); sequences here are
   1-based, so element i of the result is cell ((i-1) div N, (i-1) mod N). *)
np_flatten(st, N) ==
    [i \in 1 .. N * N |-> st[<<(i - 1) \div N, (i - 1) % N>>]]

(* x ^ 1 on an unsigned 8-bit value *)
xor1(v) == IF v % 2 = 0 THEN (v + 1) % 256 ELSE v - 1

-----------------------------------------------------------------------------
(* Text written by np.savetxt(fname, mat, fmt="%d", delimiter=","):
   a line is a sequence of characters. *)

digit(d) ==
    CASE d = 0 -> "0" [] d = 1 -> "1" [] d = 2 -> "2" [] d = 3 -> "3"
      [] d = 4 -> "4" [] d = 5 -> "5" [] d = 6 -> "6" [] d = 7 -> "7"
      [] d = 8 -> "8" [] d = 9 -> "9"

RECURSIVE fmt_d(_)
fmt_d(n) ==
    IF n < 0 THEN <<"-">> \o fmt_d(-n)
    ELSE IF n < 10 THEN <<digit(n)>>
    ELSE fmt_d(n \div 10) \o <<digit(n % 10)>>

(* A row written with np.savetxt's default delimiter, a space. *)
RECURSIVE savetxt_row_space(_)
savetxt_row_space(row) ==
    IF Len(row) = 0 THEN <<>>
    ELSE IF Len(row) = 1 THEN fmt_d(row[1])
    ELSE fmt_d(row[1]) \o <<" ">> \o savetxt_row_space(Tail(row))

RECURSIVE savetxt_row(_)
savetxt_row(row) ==
    IF Len(row) = 0 THEN <<>>
    ELSE IF Len(row) = 1 THEN fmt_d(row[1])
    ELSE fmt_d(row[1]) \o <<",">> \o savetxt_row(Tail(row))

np_savetxt(mat) == [i \in 1 .. Len(mat) |-> savetxt_row(mat[i])]

-----------------------------------------------------------------------------
(* The record of the most recent handler. *)

NoImage == [width |-> 0, height |-> 0, block |-> 1, data |-> <<>>]

(* Pixel (x, y) of an image: x runs along a row of the array, y down its
   rows; in an image enlarged with Image.NEAREST it is the source pixel
   (x div block, y div block). *)
image_pixel(img, x, y) == img.data[<<y \div img.block, x \div img.block>>]

Outcome(op, xy, cell, pre, notif) ==
    [op |-> op,              \* the handler
     xy |-> xy,              \* (event.x, event.y) of a pointer event, or None
     cell |-> cell,          \* what _coords_to_cell returned for it
     pre_state |-> pre,      \* self.state when the handler was entered
     notif |-> notif,        \* the messagebox shown: none, info, warning, error
     escaped |-> FALSE,      \* an exception left the handler
     prompted |-> FALSE,     \* filedialog.asksaveasfilename was called
     io |-> "none",          \* the file write: none, ok, fail
     csv |-> <<>>,           \* the lines written by np.savetxt
     png |-> NoImage]        \* the image written by img.save

-----------------------------------------------------------------------------
(* Inputs *)

Variants == {"grid_maker", "symbols_maker"}

(* Pointer positions (event.x, event.y) outside the N x N canvas: left of,
   above, right of and below it. *)
OutsidePoints(N) ==
    {<<-1, 0>>, <<0, -1>>, <<N * CELL_SIZE, 0>>, <<0, N * CELL_SIZE>>}

(* Pointer positions explored together with commit and export: two cells of
   the first row or last column (cells (0, 0) and (0, 7) in grid_maker, cells
   (0, 4) and (4, 4) in symbols_maker), one position left of the canvas and
   one below it. *)
EventPoints(v) ==
    LET N == GRID_SIZE(v) IN
    {<<N * CELL_SIZE - 1, 0>>, <<-1, 0>>, <<0, N * CELL_SIZE>>}
      \cup (IF v = "grid_maker"
             THEN {<<0, 0>>}
             ELSE {<<N * CELL_SIZE - 1, N * CELL_SIZE - 1>>})

(* What asksaveasfilename returns: "" when the user cancels. *)
Paths == {"", "out"}

-----------------------------------------------------------------------------
(* grid_maker.py *)

gm_coords_to_cell(x, y) ==
    LET col == floordiv(x, CELL_SIZE)
        row == floordiv(y, CELL_SIZE)
    IN  IF 0 <= row /\ row < GRID_SIZE_gm /\ 0 <= col /\ col < GRID_SIZE_gm
        THEN <<row, col>>
        ELSE None

gm_toggle(st, cell) == [st EXCEPT ![cell] = xor1(@)]

(* Painting that flips the cell, as a click does. *)
gm_paint_toggles(st, cell) == [st EXCEPT ![cell] = xor1(@)]

gm_paint(st, cell) == IF st[cell] = 0 THEN [st EXCEPT ![cell] = 1] ELSE st

gm_erase(st, cell) == IF st[cell] # 0 THEN [st EXCEPT ![cell] = 0] ELSE st

gm_flatten(st) == np_flatten(st, GRID_SIZE_gm)

gm_Init ==
    /\ variant = "grid_maker"
    /\ state = np_zeros(GRID_SIZE_gm)
    /\ shape_var = 0
    /\ samples = <<>>
    /\ rects = [cell \in Cells(GRID_SIZE_gm) |-> "white"]
    /\ last = Outcome("init", None, None, np_zeros(GRID_SIZE_gm), "none")

gm_toggle_cell(x, y) ==
    /\ variant = "grid_maker"
    /\ LET cell == gm_coords_to_cell(x, y) IN
        /\ IF cell # None
           THEN /\ state' = gm_toggle(state, cell)
                /\ rects' = [rects EXCEPT ![cell] =
                                IF state'[cell] # 0 THEN "black" ELSE "white"]
           ELSE UNCHANGED <<state, rects>>
        /\ last' = Outcome("toggle_cell", <<x, y>>, cell, state, "none")
    /\ UNCHANGED <<variant, shape_var, samples>>

gm_paint_motion(x, y) ==
    /\ variant = "grid_maker"
    /\ LET cell == gm_coords_to_cell(x, y) IN
        /\ IF cell # None
           THEN /\ state' = gm_paint(state, cell)
                /\ rects' = IF state[cell] = 0
                            THEN [rects EXCEPT ![cell] = "black"]
                            ELSE rects
           ELSE UNCHANGED <<state, rects>>
        /\ last' = Outcome("paint_motion", <<x, y>>, cell, state, "none")
    /\ UNCHANGED <<variant, shape_var, samples>>

gm_erase_body(op, x, y) ==
    /\ variant = "grid_maker"
    /\ LET cell == gm_coords_to_cell(x, y) IN
        /\ IF cell # None
           THEN /\ state' = gm_erase(state, cell)
                /\ rects' = IF state[cell] # 0
                            THEN [rects EXCEPT ![cell] = "white"]
                            ELSE rects
           ELSE UNCHANGED <<state, rects>>
        /\ last' = Outcome(op, <<x, y>>, cell, state, "none")
    /\ UNCHANGED <<variant, shape_var, samples>>

gm_erase_cell(x, y) == gm_erase_body("erase_cell", x, y)

gm_erase_motion(x, y) == gm_erase_body("erase_motion", x, y)

(* _reset emptying self.samples too. *)
gm_reset_clears_store ==
    /\ variant = "grid_maker"
    /\ state' = np_zeros(GRID_SIZE_gm)
    /\ rects' = [cell \in Cells(GRID_SIZE_gm) |-> "white"]
    /\ samples' = <<>>
    /\ last' = Outcome("reset", None, None, state, "info")
    /\ UNCHANGED <<variant, shape_var>>

gm_reset ==
    /\ variant = "grid_maker"
    /\ state' = np_zeros(GRID_SIZE_gm)
    /\ rects' = [cell \in Cells(GRID_SIZE_gm) |-> "white"]
    /\ last' = Outcome("reset", None, None, state, "info")
    /\ UNCHANGED <<variant, shape_var, samples>>

(* _next appending a view of self.state (ravel()) instead of a copy: every
   stored vector then shares the array that _reset fills with 0. *)
gm_next_stores_view ==
    /\ variant = "grid_maker"
    /\ LET flat == gm_flatten(state) IN
        IF \E i \in DOMAIN flat : flat[i] # 0
        THEN /\ Len(samples) < MaxSamples
             /\ samples' = [i \in 1 .. Len(samples) + 1 |->
                              gm_flatten(np_zeros(GRID_SIZE_gm))]
             /\ state' = np_zeros(GRID_SIZE_gm)
             /\ rects' = [cell \in Cells(GRID_SIZE_gm) |-> "white"]
             /\ last' = Outcome("next", None, None, state, "info")
        ELSE /\ last' = Outcome("next", None, None, state, "warning")
             /\ UNCHANGED <<state, rects, samples>>
    /\ UNCHANGED <<variant, shape_var>>

(* _next without its call of _reset. *)
gm_next_keeps_canvas ==
    /\ variant = "grid_maker"
    /\ LET flat == gm_flatten(state) IN
        IF \E i \in DOMAIN flat : flat[i] # 0
        THEN /\ Len(samples) < MaxSamples
             /\ samples' = Append(samples, flat)
             /\ last' = Outcome("next", None, None, state, "info")
             /\ UNCHANGED <<state, rects>>
        ELSE /\ last' = Outcome("next", None, None, state, "warning")
             /\ UNCHANGED <<state, rects, samples>>
    /\ UNCHANGED <<variant, shape_var>>

gm_next ==
    /\ variant = "grid_maker"
    /\ LET flat == gm_flatten(state) IN
        IF \E i \in DOMAIN flat : flat[i] # 0
        THEN /\ Len(samples) < MaxSamples
             /\ samples' = Append(samples, flat)
             /\ state' = np_zeros(GRID_SIZE_gm)
             /\ rects' = [cell \in Cells(GRID_SIZE_gm) |-> "white"]
             /\ last' = Outcome("next", None, None, state, "info")
        ELSE /\ last' = Outcome("next", None, None, state, "warning")
             /\ UNCHANGED <<state, rects, samples>>
    /\ UNCHANGED <<variant, shape_var>>

(* _save_all adding the current drawing only once a path was chosen. *)
gm_save_all_appends_after_prompt(fname, io_ok) ==
    /\ variant = "grid_maker"
    /\ IF samples = <<>> /\ ~np_any(state)
       THEN /\ last' = Outcome("save_all", None, None, state, "warning")
            /\ UNCHANGED samples
       ELSE LET appended == IF np_any(state)
                            THEN Append(samples, gm_flatten(state))
                            ELSE samples
            IN  /\ Len(appended) <= MaxSamples
                /\ IF fname = ""
                   THEN /\ samples' = samples
                        /\ last' = [Outcome("save_all", None, None, state, "none")
                                      EXCEPT !.prompted = TRUE]
                   ELSE IF io_ok
                   THEN /\ samples' = <<>>
                        /\ last' = [Outcome("save_all", None, None, state, "info")
                                      EXCEPT !.prompted = TRUE, !.io = "ok",
                                             !.csv = np_savetxt(appended)]
                   ELSE /\ samples' = appended
                        /\ last' = [Outcome("save_all", None, None, state, "error")
                                      EXCEPT !.prompted = TRUE, !.io = "fail"]
    /\ UNCHANGED <<variant, state, shape_var, rects>>

(* _save_all without self.samples.clear(). *)
gm_save_all_keeps_store(fname, io_ok) ==
    /\ variant = "grid_maker"
    /\ IF samples = <<>> /\ ~np_any(state)
       THEN /\ last' = Outcome("save_all", None, None, state, "warning")
            /\ UNCHANGED samples
       ELSE LET appended == IF np_any(state)
                            THEN Append(samples, gm_flatten(state))
                            ELSE samples
            IN  /\ Len(appended) <= MaxSamples
                /\ samples' = appended
                /\ IF fname = ""
                   THEN last' = [Outcome("save_all", None, None, state, "none")
                                   EXCEPT !.prompted = TRUE]
                   ELSE IF io_ok
                   THEN last' = [Outcome("save_all", None, None, state, "info")
                                   EXCEPT !.prompted = TRUE, !.io = "ok",
                                          !.csv = np_savetxt(appended)]
                   ELSE last' = [Outcome("save_all", None, None, state, "error")
                                   EXCEPT !.prompted = TRUE, !.io = "fail"]
    /\ UNCHANGED <<variant, state, shape_var, rects>>

gm_save_all(fname, io_ok) ==
    /\ variant = "grid_maker"
    /\ IF samples = <<>> /\ ~np_any(state)
       THEN /\ last' = Outcome("save_all", None, None, state, "warning")
            /\ UNCHANGED samples
       ELSE LET appended == IF np_any(state)
                            THEN Append(samples, gm_flatten(state))
                            ELSE samples
            IN  /\ Len(appended) <= MaxSamples
                /\ IF fname = ""
                   THEN /\ samples' = appended
                        /\ last' = [Outcome("save_all", None, None, state, "none")
                                      EXCEPT !.prompted = TRUE]
                   ELSE IF io_ok
                   THEN /\ samples' = <<>>
                        /\ last' = [Outcome("save_all", None, None, state, "info")
                                      EXCEPT !.prompted = TRUE, !.io = "ok",
                                             !.csv = np_savetxt(appended)]
                   ELSE /\ samples' = appended
                        /\ last' = [Outcome("save_all", None, None, state, "error")
                                      EXCEPT !.prompted = TRUE, !.io = "fail"]
    /\ UNCHANGED <<variant, state, shape_var, rects>>

(* The image with the colours the other way round: 255 * self.state. *)
gm_image_inverted(st) ==
    [width |-> GRID_SIZE_gm, height |-> GRID_SIZE_gm, block |-> 1,
     data |-> [cell \in Cells(GRID_SIZE_gm) |-> (255 * (st[cell] % 256)) % 256]]

(* Image.fromarray(255 * (1 - self.state).astype(np.uint8)): one pixel per cell *)
gm_image(st) ==
    [width |-> GRID_SIZE_gm, height |-> GRID_SIZE_gm, block |-> 1,
     data |-> [cell \in Cells(GRID_SIZE_gm) |-> (255 * ((1 - st[cell]) % 256)) % 256]]

gm_save_png_current(fname, io_ok) ==
    /\ variant = "grid_maker"
    /\ IF fname = ""
       THEN last' = [Outcome("save_png_current", None, None, state, "none")
                       EXCEPT !.prompted = TRUE]
       ELSE IF io_ok
       THEN last' = [Outcome("save_png_current", None, None, state, "info")
                       EXCEPT !.prompted = TRUE, !.io = "ok",
                              !.png = gm_image(state)]
       ELSE last' = [Outcome("save_png_current", None, None, state, "error")
                       EXCEPT !.prompted = TRUE, !.io = "fail"]
    /\ UNCHANGED <<variant, state, shape_var, samples, rects>>

-----------------------------------------------------------------------------
(* symbols_maker.py *)

sm_coords_to_cell(x, y) ==
    LET col == floordiv(x, CELL_SIZE)
        row == floordiv(y, CELL_SIZE)
    IN  IF 0 <= row /\ row < GRID_SIZE_sm /\ 0 <= col /\ col < GRID_SIZE_sm
        THEN <<row, col>>
        ELSE None

(* A click that sets the cell instead of flipping it. *)
sm_toggle_sets(st, cell) == [st EXCEPT ![cell] = 1]

sm_toggle(st, cell) == [st EXCEPT ![cell] = 1 - @]

sm_paint(st, cell) == [st EXCEPT ![cell] = 1]

sm_erase(st, cell) == [st EXCEPT ![cell] = 0]

(* The vector with the default label in place of the selected one. *)
sm_vec_default_label(st, label) == Append(np_flatten(st, GRID_SIZE_sm), 0)

(* self.state.flatten().tolist() followed by vec.append(self.shape_var.get()) *)
sm_vec(st, label) == Append(np_flatten(st, GRID_SIZE_sm), label)

sm_Init ==
    /\ variant = "symbols_maker"
    /\ state = np_zeros(GRID_SIZE_sm)
    /\ shape_var = 0
    /\ samples = <<>>
    /\ rects = [cell \in Cells(GRID_SIZE_sm) |-> ""]
    /\ last = Outcome("init", None, None, np_zeros(GRID_SIZE_sm), "none")

(* The Circle / Cross radio buttons write their value to shape_var. *)
sm_select_shape(value) ==
    /\ variant = "symbols_maker"
    /\ shape_var' = value
    /\ last' = Outcome("select_shape", None, None, state, "none")
    /\ UNCHANGED <<variant, state, samples, rects>>

sm_toggle_cell(x, y) ==
    /\ variant = "symbols_maker"
    /\ LET cell == sm_coords_to_cell(x, y) IN
        /\ IF cell # None
           THEN /\ state' = sm_toggle(state, cell)
                /\ rects' = [rects EXCEPT ![cell] =
                                IF state'[cell] # 0 THEN "black" ELSE "white"]
           ELSE UNCHANGED <<state, rects>>
        /\ last' = Outcome("toggle_cell", <<x, y>>, cell, state, "none")
    /\ UNCHANGED <<variant, shape_var, samples>>

sm_paint_motion(x, y) ==
    /\ variant = "symbols_maker"
    /\ LET cell == sm_coords_to_cell(x, y) IN
        /\ IF cell # None
           THEN /\ state' = sm_paint(state, cell)
                /\ rects' = [rects EXCEPT ![cell] = "black"]
           ELSE UNCHANGED <<state, rects>>
        /\ last' = Outcome("paint_motion", <<x, y>>, cell, state, "none")
    /\ UNCHANGED <<variant, shape_var, samples>>

sm_erase_cell(x, y) ==
    /\ variant = "symbols_maker"
    /\ LET cell == sm_coords_to_cell(x, y) IN
        /\ IF cell # None
           THEN /\ state' = sm_erase(state, cell)
                /\ rects' = [rects EXCEPT ![cell] = "white"]
           ELSE UNCHANGED <<state, rects>>
        /\ last' = Outcome("erase_cell", <<x, y>>, cell, state, "none")
    /\ UNCHANGED <<variant, shape_var, samples>>

sm_erase_motion(x, y) ==
    /\ variant = "symbols_maker"
    /\ LET cell == sm_coords_to_cell(x, y) IN
        /\ IF cell # None
           THEN /\ state' = sm_erase(state, cell)
                /\ rects' = [rects EXCEPT ![cell] = "white"]
           ELSE UNCHANGED <<state, rects>>
        /\ last' = Outcome("erase_motion", <<x, y>>, cell, state, "none")
    /\ UNCHANGED <<variant, shape_var, samples>>

(* _reset without the loop that repaints the rectangles. *)
sm_reset_keeps_view ==
    /\ variant = "symbols_maker"
    /\ state' = np_zeros(GRID_SIZE_sm)
    /\ shape_var' = 0
    /\ last' = Outcome("reset", None, None, state, "none")
    /\ UNCHANGED <<variant, samples, rects>>

(* _reset without self.shape_var.set(0). *)
sm_reset_keeps_label ==
    /\ variant = "symbols_maker"
    /\ state' = np_zeros(GRID_SIZE_sm)
    /\ rects' = [cell \in Cells(GRID_SIZE_sm) |-> "white"]
    /\ last' = Outcome("reset", None, None, state, "none")
    /\ UNCHANGED <<variant, shape_var, samples>>

sm_reset ==
    /\ variant = "symbols_maker"
    /\ state' = np_zeros(GRID_SIZE_sm)
    /\ shape_var' = 0
    /\ rects' = [cell \in Cells(GRID_SIZE_sm) |-> "white"]
    /\ last' = Outcome("reset", None, None, state, "none")
    /\ UNCHANGED <<variant, samples>>

(* _next calling _reset before it returns from the empty case too. *)
sm_next_resets_when_empty ==
    /\ variant = "symbols_maker"
    /\ IF ~np_any(state)
       THEN /\ last' = Outcome("next", None, None, state, "warning")
            /\ state' = np_zeros(GRID_SIZE_sm)
            /\ shape_var' = 0
            /\ rects' = [cell \in Cells(GRID_SIZE_sm) |-> "white"]
            /\ UNCHANGED samples
       ELSE /\ Len(samples) < MaxSamples
            /\ samples' = Append(samples, sm_vec(state, shape_var))
            /\ state' = np_zeros(GRID_SIZE_sm)
            /\ shape_var' = 0
            /\ rects' = [cell \in Cells(GRID_SIZE_sm) |-> "white"]
            /\ last' = Outcome("next", None, None, state, "info")
    /\ UNCHANGED variant

sm_next ==
    /\ variant = "symbols_maker"
    /\ IF ~np_any(state)
       THEN /\ last' = Outcome("next", None, None, state, "warning")
            /\ UNCHANGED <<state, shape_var, rects, samples>>
       ELSE /\ Len(samples) < MaxSamples
            /\ samples' = Append(samples, sm_vec(state, shape_var))
            /\ state' = np_zeros(GRID_SIZE_sm)
            /\ shape_var' = 0
            /\ rects' = [cell \in Cells(GRID_SIZE_sm) |-> "white"]
            /\ last' = Outcome("next", None, None, state, "info")
    /\ UNCHANGED <<variant>>

(* _save_all ending, like _next, with a call of _reset after the write. *)
sm_save_all_resets(path, io_ok) ==
    /\ variant = "symbols_maker"
    /\ LET appended == IF np_any(state)
                       THEN Append(samples, sm_vec(state, shape_var))
                       ELSE samples
       IN  /\ Len(appended) <= MaxSamples
           /\ samples' = appended
           /\ IF appended = <<>>
              THEN /\ last' = Outcome("save_all", None, None, state, "warning")
                   /\ UNCHANGED <<state, shape_var, rects>>
              ELSE IF path = ""
              THEN /\ last' = [Outcome("save_all", None, None, state, "none")
                                 EXCEPT !.prompted = TRUE]
                   /\ UNCHANGED <<state, shape_var, rects>>
              ELSE IF io_ok
              THEN /\ last' = [Outcome("save_all", None, None, state, "info")
                                 EXCEPT !.prompted = TRUE, !.io = "ok",
                                        !.csv = np_savetxt(appended)]
                   /\ state' = np_zeros(GRID_SIZE_sm)
                   /\ shape_var' = 0
                   /\ rects' = [cell \in Cells(GRID_SIZE_sm) |-> "white"]
              ELSE /\ last' = [Outcome("save_all", None, None, state, "none")
                                 EXCEPT !.prompted = TRUE, !.io = "fail",
                                        !.escaped = TRUE]
                   /\ UNCHANGED <<state, shape_var, rects>>
    /\ UNCHANGED variant

(* _save_all without the test for an empty sample list. *)
sm_save_all_no_check(path, io_ok) ==
    /\ variant = "symbols_maker"
    /\ LET appended == IF np_any(state)
                       THEN Append(samples, sm_vec(state, shape_var))
                       ELSE samples
       IN  /\ Len(appended) <= MaxSamples
           /\ samples' = appended
           /\ IF path = ""
              THEN last' = [Outcome("save_all", None, None, state, "none")
                              EXCEPT !.prompted = TRUE]
              ELSE IF io_ok
              THEN last' = [Outcome("save_all", None, None, state, "info")
                              EXCEPT !.prompted = TRUE, !.io = "ok",
                                     !.csv = np_savetxt(appended)]
              ELSE last' = [Outcome("save_all", None, None, state, "none")
                              EXCEPT !.prompted = TRUE, !.io = "fail",
                                     !.escaped = TRUE]
    /\ UNCHANGED <<variant, state, shape_var, rects>>

sm_save_all(path, io_ok) ==
    /\ variant = "symbols_maker"
    /\ LET appended == IF np_any(state)
                       THEN Append(samples, sm_vec(state, shape_var))
                       ELSE samples
       IN  /\ Len(appended) <= MaxSamples
           /\ samples' = appended
           /\ IF appended = <<>>
              THEN last' = Outcome("save_all", None, None, state, "warning")
              ELSE IF path = ""
              THEN last' = [Outcome("save_all", None, None, state, "none")
                              EXCEPT !.prompted = TRUE]
              ELSE IF io_ok
              THEN last' = [Outcome("save_all", None, None, state, "info")
                              EXCEPT !.prompted = TRUE, !.io = "ok",
                                     !.csv = np_savetxt(appended)]
              ELSE last' = [Outcome("save_all", None, None, state, "none")
                              EXCEPT !.prompted = TRUE, !.io = "fail",
                                     !.escaped = TRUE]
    /\ UNCHANGED <<variant, state, shape_var, rects>>

(* Image.fromarray((self.state * 255).astype('uint8')) resized with
   Image.NEAREST to GRID_SIZE * CELL_SIZE: pixel (x, y) of the result is the
   source pixel (x div CELL_SIZE, y div CELL_SIZE). *)
sm_image(st) ==
    [width |-> GRID_SIZE_sm * CELL_SIZE, height |-> GRID_SIZE_sm * CELL_SIZE,
     block |-> CELL_SIZE,
     data |-> [cell \in Cells(GRID_SIZE_sm) |-> (st[cell] * 255) % 256]]

sm_save_png_current(path, io_ok) ==
    /\ variant = "symbols_maker"
    /\ IF ~np_any(state)
       THEN last' = Outcome("save_png_current", None, None, state, "warning")
       ELSE IF path = ""
       THEN last' = [Outcome("save_png_current", None, None, state, "none")
                       EXCEPT !.prompted = TRUE]
       ELSE IF io_ok
       THEN last' = [Outcome("save_png_current", None, None, state, "info")
                       EXCEPT !.prompted = TRUE, !.io = "ok",
                              !.png = sm_image(state)]
       ELSE last' = [Outcome("save_png_current", None, None, state, "none")
                       EXCEPT !.prompted = TRUE, !.io = "fail",
                              !.escaped = TRUE]
    /\ UNCHANGED <<variant, state, shape_var, samples, rects>>

-----------------------------------------------------------------------------
(* The two programs as one state machine *)

Init == gm_Init \/ sm_Init

Next ==
    \/ \E p \in EventPoints("grid_maker") : gm_toggle_cell(p[1], p[2])
    \/ \E p \in EventPoints("grid_maker") : gm_paint_motion(p[1], p[2])
    \/ \E p \in EventPoints("grid_maker") : gm_erase_cell(p[1], p[2])
    \/ \E p \in EventPoints("grid_maker") : gm_erase_motion(p[1], p[2])
    \/ gm_next
    \/ \E f \in Paths, ok \in BOOLEAN : gm_save_all(f, ok)
    \/ \E f \in Paths, ok \in BOOLEAN : gm_save_png_current(f, ok)
    \/ gm_reset
    \/ \E v \in {0, 1} : sm_select_shape(v)
    \/ \E p \in EventPoints("symbols_maker") : sm_toggle_cell(p[1], p[2])
    \/ \E p \in EventPoints("symbols_maker") : sm_paint_motion(p[1], p[2])
    \/ \E p \in EventPoints("symbols_maker") : sm_erase_cell(p[1], p[2])
    \/ \E p \in EventPoints("symbols_maker") : sm_erase_motion(p[1], p[2])
    \/ sm_next
    \/ \E f \in Paths, ok \in BOOLEAN : sm_save_all(f, ok)
    \/ \E f \in Paths, ok \in BOOLEAN : sm_save_png_current(f, ok)
    \/ sm_reset

Spec == Init /\ [][Next]_vars

(* The drawing surface alone: pointer events at the four corner cells, at the
   second cell of the first row and at every side outside the canvas, with
   reset and the label selector. *)
DrawPoints(v) ==
    LET N == GRID_SIZE(v) IN
    {<<0, 0>>, <<N * CELL_SIZE - 1, 0>>, <<0, N * CELL_SIZE - 1>>,
     <<N * CELL_SIZE - 1, N * CELL_SIZE - 1>>, <<CELL_SIZE, CELL_SIZE - 1>>}
      \cup OutsidePoints(N)

NextDraw ==
    \/ \E p \in DrawPoints("grid_maker") : gm_toggle_cell(p[1], p[2])
    \/ \E p \in DrawPoints("grid_maker") : gm_paint_motion(p[1], p[2])
    \/ \E p \in DrawPoints("grid_maker") : gm_erase_cell(p[1], p[2])
    \/ \E p \in DrawPoints("grid_maker") : gm_erase_motion(p[1], p[2])
    \/ gm_reset
    \/ \E v \in {0, 1} : sm_select_shape(v)
    \/ \E p \in DrawPoints("symbols_maker") : sm_toggle_cell(p[1], p[2])
    \/ \E p \in DrawPoints("symbols_maker") : sm_paint_motion(p[1], p[2])
    \/ \E p \in DrawPoints("symbols_maker") : sm_erase_cell(p[1], p[2])
    \/ \E p \in DrawPoints("symbols_maker") : sm_erase_motion(p[1], p[2])
    \/ sm_reset

SpecDraw == Init /\ [][NextDraw]_vars

(* Drawing and export-to-image alone. *)
NextImage ==
    \/ \E p \in EventPoints("grid_maker") : gm_toggle_cell(p[1], p[2])
    \/ \E p \in EventPoints("grid_maker") : gm_paint_motion(p[1], p[2])
    \/ \E p \in EventPoints("grid_maker") : gm_erase_cell(p[1], p[2])
    \/ \E p \in EventPoints("grid_maker") : gm_erase_motion(p[1], p[2])
    \/ \E f \in Paths, ok \in BOOLEAN : gm_save_png_current(f, ok)
    \/ gm_reset
    \/ \E p \in EventPoints("symbols_maker") : sm_toggle_cell(p[1], p[2])
    \/ \E p \in EventPoints("symbols_maker") : sm_paint_motion(p[1], p[2])
    \/ \E p \in EventPoints("symbols_maker") : sm_erase_cell(p[1], p[2])
    \/ \E p \in EventPoints("symbols_maker") : sm_erase_motion(p[1], p[2])
    \/ \E f \in Paths, ok \in BOOLEAN : sm_save_png_current(f, ok)
    \/ sm_reset

SpecImage == Init /\ [][NextImage]_vars

-----------------------------------------------------------------------------
(* Vocabulary of the properties, stated without the program's own helpers. *)

Side == IF variant = "grid_maker" THEN 8 ELSE 5

Labelled == variant = "symbols_maker"

AllCells == (0 .. Side - 1) \X (0 .. Side - 1)

AllZero(st) == \A cell \in AllCells : st[cell] = 0

(* The row-major vector of a grid, with the label last in the labelled variant. *)
RowMajor(st, label) ==
    [i \in 1 .. (IF Labelled THEN Side * Side + 1 ELSE Side * Side) |->
        IF i <= Side * Side
        THEN st[<<(i - 1) \div Side, (i - 1) % Side>>]
        ELSE label]

(* The text of a table of 0/1 vectors: one line per vector, the values as
   decimal digits separated by commas.  A line is a sequence of characters. *)
BitText(v) == CASE v = 0 -> "0" [] v = 1 -> "1" [] OTHER -> "?"

CsvLine(vec) ==
    [j \in 1 .. 2 * Len(vec) - 1 |->
        IF j % 2 = 1 THEN BitText(vec[(j + 1) \div 2]) ELSE ","]

CsvText(rows) == [i \in 1 .. Len(rows) |-> CsvLine(rows[i])]

PointerOps == {"toggle_cell", "paint_motion", "erase_cell", "erase_motion"}

(* Whether pixel position xy lies on the canvas, and the cell it lies in. *)
OnCanvas(xy) ==
    /\ 0 <= xy[1] /\ xy[1] < Side * CELL_SIZE
    /\ 0 <= xy[2] /\ xy[2] < Side * CELL_SIZE

CellAt(xy) ==
    CHOOSE cell \in AllCells :
        /\ cell[1] * CELL_SIZE <= xy[2] /\ xy[2] < (cell[1] + 1) * CELL_SIZE
        /\ cell[2] * CELL_SIZE <= xy[1] /\ xy[1] < (cell[2] + 1) * CELL_SIZE

(* The step just taken left every cell but one as it was. *)
OthersKept(cell) == \A other \in AllCells \ {cell} : state'[other] = state[other]

-----------------------------------------------------------------------------
(* C1: a commit (Next) on a grid with a painted cell appends exactly one
   sample at the end of the store, leaving the earlier samples as they were;
   the sample has N*N entries (N*N+1 in the labelled variant) and the grid is
   all zero afterwards. *)
C1_CommitAppendsOneSample ==
    [][(last'.op = "next" /\ ~AllZero(state)) =>
          /\ Len(samples') = Len(samples) + 1
          /\ SubSeq(samples', 1, Len(samples)) = samples
          /\ Len(samples'[Len(samples')]) =
                (IF Labelled THEN Side * Side + 1 ELSE Side * Side)
          /\ AllZero(state')]_vars

C1_Witness ==
    /\ Labelled /\ last.op = "next" /\ last.notif = "info"
    /\ ~AllZero(last.pre_state) /\ AllZero(state)
    /\ Len(samples) = 2 /\ Len(samples[2]) = 26

(* C2: a commit on an all-zero grid shows a warning and changes nothing:
   grid, label and store are as before and nothing is appended. *)
C2_EmptyCommitChangesNothing ==
    [][(last'.op = "next" /\ AllZero(state)) =>
          /\ last'.notif = "warning"
          /\ state' = state
          /\ shape_var' = shape_var
          /\ samples' = samples]_vars

C2_Witness ==
    /\ Labelled /\ last.op = "next" /\ last.notif = "warning"
    /\ AllZero(state) /\ shape_var = 1 /\ Len(samples) = 1

(* C3: every sample created by commit, or by the implicit commit of
   export-to-table, holds at index r*N + c the value grid[r][c] had when it
   was created.  A sample created by an export of grid_maker that succeeds is
   cleared from the store at once and is read from the last line written. *)
C3_SampleIsRowMajor ==
    [][\A cell \in AllCells :
          LET idx == cell[1] * Side + cell[2] + 1 IN
          /\ (Len(samples') = Len(samples) + 1) =>
                samples'[Len(samples')][idx] = state[cell]
          /\ (last'.op = "save_all" /\ last'.io = "ok" /\ ~AllZero(state)) =>
                last'.csv[Len(last'.csv)][2 * idx - 1] = BitText(state[cell])]_vars

C3_Witness ==
    /\ ~Labelled /\ last.op = "next" /\ last.notif = "info"
    /\ Len(samples) = 2
    /\ samples[1] = [i \in 1 .. 64 |-> IF i = 1 THEN 1 ELSE 0]
    /\ samples[2] = [i \in 1 .. 64 |-> IF i = 8 THEN 1 ELSE 0]

(* C4: a confirmed export-to-table whose write succeeds, started with the
   store S1..Sk, writes the rows S1..Sk in that order followed, when the grid
   has a painted cell, by the row-major vector of the grid (with the label in
   the labelled variant), and nothing else; each row is written as its values
   in decimal, separated by commas. *)
C4_ExportWritesStoreThenGrid ==
    [][(last'.op = "save_all" /\ last'.io = "ok") =>
          IF AllZero(state)
          THEN last'.csv = CsvText(samples)
          ELSE /\ Len(last'.csv) = Len(samples) + 1
               /\ SubSeq(last'.csv, 1, Len(samples)) = CsvText(samples)
               /\ last'.csv[Len(last'.csv)] =
                     CsvLine(RowMajor(state, shape_var))]_vars

C4_Witness ==
    /\ Labelled /\ last.op = "save_all" /\ last.io = "ok"
    /\ ~AllZero(state) /\ shape_var = 1
    /\ Len(last.csv) = 2
    /\ last.csv[1] # last.csv[2]

(* C5: after an export-to-table whose file write fails, grid, label and store
   are what they were when the export was invoked. *)
C5_FailedExportKeepsState ==
    [][(last'.op = "save_all" /\ last'.io = "fail") =>
          /\ state' = state
          /\ shape_var' = shape_var
          /\ samples' = samples]_vars

(* C6: an export-to-table with an empty store and an all-zero grid shows a
   warning, never asks for a path, writes nothing and leaves grid, label and
   store as they were. *)
C6_EmptyExportIsRejected ==
    [][(last'.op = "save_all" /\ samples = <<>> /\ AllZero(state)) =>
          /\ last'.notif = "warning"
          /\ ~last'.prompted
          /\ last'.io = "none"
          /\ last'.csv = <<>>
          /\ state' = state
          /\ shape_var' = shape_var
          /\ samples' = samples]_vars

C6_Witness ==
    /\ Labelled /\ last.op = "save_all" /\ last.notif = "warning"
    /\ samples = <<>> /\ AllZero(state) /\ shape_var = 1

(* C7: a failure of the file write of export-to-table or export-to-image is
   caught in the handler and shown as an error: no exception leaves the
   handler. *)
C7_WriteFailureIsReported ==
    (last.op \in {"save_all", "save_png_current"} /\ last.io = "fail") =>
        (last.notif = "error" /\ ~last.escaped)

(* C8: a primary-button drag on a cell leaves it 1 and a secondary-button
   click or drag leaves it 0, whatever it was; no other cell, nor the label
   or the store, changes; repeating the event changes nothing. *)
C8_PaintSetsEraseClears ==
    [][/\ (last'.op = "paint_motion" /\ OnCanvas(last'.xy)) =>
             /\ state'[CellAt(last'.xy)] = 1
             /\ OthersKept(CellAt(last'.xy))
             /\ shape_var' = shape_var /\ samples' = samples
       /\ (last'.op \in {"erase_cell", "erase_motion"} /\ OnCanvas(last'.xy)) =>
             /\ state'[CellAt(last'.xy)] = 0
             /\ OthersKept(CellAt(last'.xy))
             /\ shape_var' = shape_var /\ samples' = samples
       /\ (/\ last'.op \in {"paint_motion", "erase_cell", "erase_motion"}
           /\ last.op = last'.op /\ last.xy = last'.xy
           /\ OnCanvas(last'.xy)) =>
             state' = state]_vars

C8_Witness ==
    /\ last.op = "paint_motion" /\ OnCanvas(last.xy)
    /\ last.pre_state[CellAt(last.xy)] = 1
    /\ state[CellAt(last.xy)] = 1
    /\ CellAt(last.xy) = <<0, 1>>

(* C9: a primary-button click on a cell, cell (0,0) included, flips that cell
   and no other; a second click on the same cell right after the first puts
   the grid back as it was before the first. *)
C9_ClickFlipsOneCell ==
    [][/\ (last'.op = "toggle_cell" /\ OnCanvas(last'.xy)) =>
             /\ state'[CellAt(last'.xy)] = 1 - state[CellAt(last'.xy)]
             /\ OthersKept(CellAt(last'.xy))
       /\ (/\ last.op = "toggle_cell" /\ last'.op = "toggle_cell"
           /\ OnCanvas(last.xy) /\ OnCanvas(last'.xy)
           /\ CellAt(last.xy) = CellAt(last'.xy)) =>
             state' = last.pre_state]_vars

C9_Witness ==
    /\ last.op = "toggle_cell" /\ last.xy = <<0, 0>>
    /\ last.pre_state[<<0, 0>>] = 1 /\ state[<<0, 0>>] = 0
    /\ ~AllZero(state)

(* C10: a pointer event whose position lies outside the canvas (negative, or
   N * CELL_SIZE and more) leaves grid, view, label and store as they were
   and raises nothing. *)
C10_OutsideEventsIgnored ==
    [][(last'.op \in PointerOps /\ ~OnCanvas(last'.xy)) =>
          /\ state' = state
          /\ rects' = rects
          /\ shape_var' = shape_var
          /\ samples' = samples
          /\ last'.notif = "none"
          /\ ~last'.escaped]_vars

C10_Witness ==
    /\ last.op \in PointerOps /\ ~OnCanvas(last.xy) /\ last.xy[1] < 0
    /\ ~AllZero(state) /\ state = last.pre_state

(* C11: reset, in any state, zeroes every cell and (labelled variant) the
   label and leaves the store as it was; on an all-zero grid it changes no
   cell, and a second reset right after a reset changes neither grid, label,
   store nor view. *)
C11_ResetClearsAndIsIdempotent ==
    [][(last'.op = "reset") =>
          /\ AllZero(state')
          /\ Labelled => shape_var' = 0
          /\ samples' = samples
          /\ AllZero(state) => state' = state
          /\ (last.op = "reset") =>
                /\ state' = state
                /\ shape_var' = shape_var
                /\ rects' = rects]_vars

C11_Witness ==
    /\ Labelled /\ last.op = "reset"
    /\ ~AllZero(last.pre_state) /\ AllZero(state) /\ shape_var = 0
    /\ Len(samples) = 2 /\ samples[2][26] = 1

(* C12: in both variants the image written by a successful export-to-image
   has side N * CELL_SIZE (400 for the 8x8 variant, 250 for the 5x5 variant)
   and values in {0, 255}, and every pixel of the CELL_SIZE x CELL_SIZE block
   of cell (r, c), at (c * CELL_SIZE, r * CELL_SIZE), has the one fixed value
   of the variant for a cell equal to 1 and the other for a cell equal to 0
   (8x8 variant 1 -> 0 and 0 -> 255, 5x5 variant 1 -> 255 and 0 -> 0).
   The 8x8 variant writes an image of side N: it does not hold. *)
C12_ImageIsGridScaledByCell ==
    (last.op = "save_png_current" /\ last.io = "ok") =>
        LET one == IF Labelled THEN 255 ELSE 0
            zero == IF Labelled THEN 0 ELSE 255
        IN  /\ last.png.width = Side * CELL_SIZE
            /\ last.png.height = Side * CELL_SIZE
            /\ \A cell \in AllCells :
                  \A dx \in 0 .. CELL_SIZE - 1, dy \in 0 .. CELL_SIZE - 1 :
                     image_pixel(last.png, cell[2] * CELL_SIZE + dx,
                                           cell[1] * CELL_SIZE + dy)
                        = (IF state[cell] = 1 THEN one ELSE zero)

(* C13: in the labelled variant the last entry (index N*N) of every sample
   is the value the label selector had when the sample was created, by commit
   or by the implicit commit of export-to-table, and the selector is 0 right
   after every commit that stores a sample and after every reset; in the 8x8
   variant a sample has N*N entries and no label. *)
C13_LabelIsLastEntry ==
    [][/\ (Labelled /\ Len(samples') = Len(samples) + 1) =>
             /\ Len(samples'[Len(samples')]) = Side * Side + 1
             /\ samples'[Len(samples')][Side * Side + 1] = shape_var
       /\ (Labelled /\ last'.op = "next" /\ Len(samples') = Len(samples) + 1) =>
             shape_var' = 0
       /\ (Labelled /\ last'.op = "reset") => shape_var' = 0
       /\ (~Labelled /\ Len(samples') = Len(samples) + 1) =>
             Len(samples'[Len(samples')]) = Side * Side]_vars

C13_Witness ==
    /\ Labelled /\ last.op = "next" /\ last.notif = "info" /\ shape_var = 0
    /\ Len(samples) = 2
    /\ samples[1] = [i \in 1 .. 26 |-> IF i \in {25, 26} THEN 1 ELSE 0]
    /\ samples[2] = [i \in 1 .. 26 |-> IF i = 5 THEN 1 ELSE 0]

(* C14: every step leaves the store unchanged, appends exactly one sample at
   its end, or empties it; it is emptied only in the 8x8 variant by an
   export-to-table whose write succeeded; in the 5x5 variant it never
   shrinks; pointer events, reset and export-to-image never change it. *)
C14_StoreStepShapes ==
    [][/\ \/ samples' = samples
          \/ /\ Len(samples') = Len(samples) + 1
             /\ SubSeq(samples', 1, Len(samples)) = samples
          \/ samples' = <<>>
       /\ (samples' = <<>> /\ samples # <<>>) =>
             (~Labelled /\ last'.op = "save_all" /\ last'.io = "ok")
       /\ Labelled => Len(samples') >= Len(samples)
       /\ (last'.op \in PointerOps \cup {"reset", "save_png_current"}) =>
             samples' = samples]_vars

C14_Witness ==
    /\ ~Labelled /\ last.op = "save_all" /\ last.io = "ok"
    /\ samples = <<>> /\ Len(last.csv) = 2 /\ AllZero(state)

(* C15: after a confirmed export-to-table whose write succeeded the store of
   the 8x8 variant is empty and the store of the 5x5 variant is exactly the
   sequence of rows written. *)
C15_StoreAfterExport ==
    (last.op = "save_all" /\ last.io = "ok") =>
        IF Labelled THEN last.csv = CsvText(samples) ELSE samples = <<>>

C15_Witness ==
    /\ Labelled /\ last.op = "save_all" /\ last.io = "ok"
    /\ Len(samples) = 2 /\ samples[1] # samples[2]
    /\ last.csv = CsvText(samples) /\ AllZero(state)

(* C16: a sample never changes once appended: in every step, every sample
   that is in the store before the step and still in it after the step has
   the same contents at the same position. *)
C16_StoredSamplesNeverChange ==
    [][\A i \in 1 .. Len(samples) :
          i <= Len(samples') => samples'[i] = samples[i]]_vars

C16_Witness ==
    /\ ~Labelled /\ last.op = "reset" /\ ~AllZero(last.pre_state)
    /\ Len(samples) = 2
    /\ samples[1][1] = 1 /\ samples[2][8] = 1

(* C17: after every handler, in both variants, the rectangle of a cell is
   black exactly when the cell is 1, and white or without fill exactly when
   the cell is 0. *)
C17_ViewShowsGrid ==
    \A cell \in AllCells :
        /\ (rects[cell] = "black") <=> (state[cell] = 1)
        /\ (rects[cell] \in {"white", ""}) <=> (state[cell] = 0)

C17_Witness ==
    /\ Labelled /\ last.op = "erase_cell" /\ last.cell = <<4, 4>>
    /\ last.pre_state[<<4, 4>>] = 1
    /\ rects[<<4, 4>>] = "white" /\ state[<<4, 4>>] = 0
    /\ rects[<<0, 4>>] = "black" /\ state[<<0, 4>>] = 1
    /\ rects[<<0, 0>>] = ""

(* C18: export-to-image on an all-zero grid is rejected with a warning,
   before any path is asked for and with no file written, in the 5x5 variant;
   in the 8x8 variant it asks for the path and a successful write gives an
   image whose pixels are all 255.  In both variants export-to-image leaves
   grid, label and store as they were, and what it shows and writes is the
   same whatever the store holds. *)
C18_EmptyImageExport ==
    [][(last'.op = "save_png_current") =>
          /\ state' = state /\ shape_var' = shape_var /\ samples' = samples
          /\ (AllZero(state) /\ Labelled) =>
                /\ last'.notif = "warning"
                /\ ~last'.prompted
                /\ last'.io = "none"
                /\ last'.png.width = 0
          /\ (AllZero(state) /\ ~Labelled) =>
                /\ last'.prompted
                /\ last'.notif # "warning"
                /\ (last'.io = "ok") =>
                      /\ last'.notif = "info"
                      /\ last'.png.width = Side /\ last'.png.height = Side
                      /\ \A x \in 0 .. Side - 1, y \in 0 .. Side - 1 :
                            image_pixel(last'.png, x, y) = 255
          /\ (last'.io = "ok" /\ ~AllZero(state)) =>
                \A cell \in AllCells :
                   image_pixel(last'.png,
                               cell[2] * last'.png.block,
                               cell[1] * last'.png.block)
                      = (IF (state[cell] = 1) = Labelled THEN 255 ELSE 0)]_vars

C18_Witness ==
    /\ ~Labelled /\ last.op = "save_png_current" /\ last.io = "ok"
    /\ AllZero(state) /\ Len(samples) = 1
    /\ image_pixel(last.png, 0, 0) = 255 /\ image_pixel(last.png, 7, 7) = 255

(* C19: export-to-table never changes the grid or the label, whether it
   succeeded, failed, was cancelled or was rejected as empty: the drawing it
   copied into the store is still on the canvas afterwards. *)
C19_ExportKeepsCanvas ==
    [][(last'.op = "save_all") =>
          /\ state' = state
          /\ shape_var' = shape_var
          /\ rects' = rects]_vars

C19_Witness ==
    /\ Labelled /\ last.op = "save_all" /\ last.io = "ok"
    /\ ~AllZero(state) /\ shape_var = 1
    /\ Len(samples) = 2 /\ samples[1] = samples[2]
    /\ samples[2] = RowMajor(state, shape_var)

(* C20: when the path prompt of export-to-table is cancelled no file is
   written, no notification is shown and the store is not cleared: it is the
   store as before with, when the grid has a painted cell, the row-major
   vector of the drawing (and the label, labelled variant) appended. *)
C20_CancelledExport ==
    [][(last'.op = "save_all" /\ last'.prompted /\ last'.io = "none") =>
          /\ last'.csv = <<>>
          /\ last'.notif = "none"
          /\ ~last'.escaped
          /\ samples' = (IF AllZero(state)
                         THEN samples
                         ELSE Append(samples, RowMajor(state, shape_var)))]_vars

C20_Witness ==
    /\ ~Labelled /\ last.op = "save_all" /\ last.prompted /\ last.io = "none"
    /\ ~AllZero(state)
    /\ Len(samples) = 2 /\ samples[1] # samples[2]
    /\ samples[2] = RowMajor(state, shape_var)

====
